---------------------------- MODULE Spec2Model ----------------------------
(***************************************************************************)
(* Powers-of-tau versus Lagrange-basis commitments (tarassh/tauvslagrange). *)
(*                                                                         *)
(* The scalar field Fr of BLS12-381 is modelled by the prime field of      *)
(* Modulus elements, which like Fr has a large power-of-two subgroup of    *)
(* roots of unity.  The prime-order group G1 is modelled by its discrete   *)
(* logarithms: the point k*G is the integer k modulo Modulus, so that      *)
(* operate_with is addition, operate_with_self is multiplication by the    *)
(* scalar's representative and the generator is 1.                         *)
(*                                                                         *)
(* Sequences are 1-based in TLA+; the code's index i is position i + 1.    *)
(***************************************************************************)
EXTENDS Integers, Sequences, FiniteSets, TLC

\* ------------------------------------------------------------------ bounds
\* Largest SRS length requested from generate_srs.
MaxSrsLen == 8
\* Largest number of coefficients of a sampled base or witness polynomial.
MaxCoeffs == 3
\* A caller may pass a prefix of the stored SRS that is up to MaxDrop short.
MaxDrop == 1

\* --------------------------------------------------------- platform, field
\* Width of usize in the model (trailing_zeros of 0 is this many bits).
UsizeBits == 16
UsizeMax == 2^UsizeBits - 1
\* Bytes of one FrElement in the model; Vec capacity is limited to isize::MAX bytes.
ElemSize == 32
IsizeMax == 2^(UsizeBits - 1) - 1

\* FrField: modulus, two-adicity and a primitive 2^TwoAdicity-th root of unity.
Modulus == 257
TwoAdicity == 8
TwoAdicPrimitiveRootOfUnity == 3

Fr == 0 .. (Modulus - 1)

\* Secret scalars tau tried (42 is the one of test_to_lagrange_basis).
Taus == {0, 1, 2, 42}
\* Coefficient pool: the coefficients of test_to_lagrange_basis.
TestCoefficients == <<6, 28, 31, 85, 30, 71, 79, 58>>

\* ------------------------------------------------------------ result types
Ok(v) == [tag |-> "Ok", val |-> v, msg |-> ""]
Err(m) == [tag |-> "Err", val |-> <<>>, msg |-> m]
Panic(m) == [tag |-> "Panic", val |-> <<>>, msg |-> m]
IsOk(r) == r.tag = "Ok"

\* ------------------------------------------------------- usize arithmetic
Min(a, b) == IF a < b THEN a ELSE b
Max(a, b) == IF a > b THEN a ELSE b

RECURSIVE TrailingZerosFrom(_, _)
TrailingZerosFrom(n, k) ==
    IF n % 2 = 1 THEN k ELSE TrailingZerosFrom(n \div 2, k + 1)
\* usize::trailing_zeros: the bit width for 0.
TrailingZeros(n) == IF n = 0 THEN UsizeBits ELSE TrailingZerosFrom(n, 0)

RECURSIVE NextPowerOfTwoFrom(_, _)
NextPowerOfTwoFrom(n, p) == IF p >= n THEN p ELSE NextPowerOfTwoFrom(n, 2 * p)
\* usize::next_power_of_two: the smallest power of two >= n (1 for 0).
NextPowerOfTwo(n) == NextPowerOfTwoFrom(n, 1)

IsPowerOfTwo(n) == n >= 1 /\ NextPowerOfTwo(n) = n

RECURSIVE ILog2From(_, _)
ILog2From(n, k) == IF n <= 1 THEN k ELSE ILog2From(n \div 2, k + 1)
\* usize::checked_ilog2(..).unwrap_or(0): position of the highest set bit, 0 for 0.
CheckedILog2OrZero(n) == IF n = 0 THEN 0 ELSE ILog2From(n, 0)

\* --------------------------------------------------------- field and group
FAdd(a, b) == (a + b) % Modulus
FMul(a, b) == (a * b) % Modulus
FNeg(a) == (Modulus - a) % Modulus
FFromU64(n) == n % Modulus

RECURSIVE FPow(_, _)
\* FieldElement::pow: square and multiply on the exponent's bits.
FPow(x, e) ==
    IF e = 0 THEN 1
    ELSE LET h == FPow(x, e \div 2)
             sq == FMul(h, h)
         IN IF e % 2 = 1 THEN FMul(sq, x) ELSE sq

\* FieldElement::inv by Fermat's little theorem.
FInv(x) == FPow(x, Modulus - 2)

Generator == 1
NeutralElement == 0
OperateWith(p, q) == (p + q) % Modulus
OperateWithSelf(p, k) == (p * k) % Modulus
Neg(p) == (Modulus - p) % Modulus

\* -------------------------------------------------- sequences, 0-based view
At(s, i) == s[i + 1]
Set(s, i, v) == [s EXCEPT ![i + 1] = v]
Zeros(n) == [i \in 1 .. n |-> 0]
Resize(s, n) == [i \in 1 .. n |-> IF i <= Len(s) THEN s[i] ELSE 0]
StepBy2(s) == [i \in 1 .. ((Len(s) + 1) \div 2) |-> s[2 * i - 1]]
Skip1StepBy2(s) == [i \in 1 .. (Len(s) \div 2) |-> s[2 * i]]
Prefix(s, n) == SubSeq(s, 1, n)


\* ------------------------------------------ lambdaworks: roots of unity, fft
RECURSIVE ReverseBits(_, _, _)
ReverseBits(i, bits, acc) ==
    IF bits = 0 THEN acc ELSE ReverseBits(i \div 2, bits - 1, 2 * acc + (i % 2))
\* reverse_index: i.reverse_bits() >> (usize::BITS - size.trailing_zeros()).
ReverseIndex(i, size) ==
    IF size = 1 THEN i ELSE ReverseBits(i, TrailingZeros(size), 0)

RECURSIVE BitReverseLoop(_, _)
BitReverseLoop(input, i) ==
    IF i >= Len(input) THEN input
    ELSE LET r == ReverseIndex(i, Len(input))
         IN IF r > i
            THEN BitReverseLoop(Set(Set(input, i, At(input, r)), r, At(input, i)), i + 1)
            ELSE BitReverseLoop(input, i + 1)
\* in_place_bit_reverse_permute (its inputs here have power-of-two length).
InPlaceBitReversePermute(input) == BitReverseLoop(input, 0)

RECURSIVE SquareTimes(_, _)
SquareTimes(x, k) == IF k = 0 THEN x ELSE SquareTimes(FMul(x, x), k - 1)
\* IsFFTField::get_primitive_root_of_unity(order): a primitive 2^order-th root.
GetPrimitiveRootOfUnity(order) ==
    IF order = 0 THEN Ok(1)
    ELSE IF order > TwoAdicity THEN Err("RootOfUnityError")
    ELSE Ok(SquareTimes(TwoAdicPrimitiveRootOfUnity, TwoAdicity - order))

RECURSIVE Powers(_, _, _)
Powers(root, state, count) ==
    IF count = 0 THEN <<>> ELSE <<state>> \o Powers(root, FMul(state, root), count - 1)

\* get_powers_of_primitive_root(n, count, config), config one of
\* "Natural", "NaturalInversed", "BitReverse", "BitReverseInversed".
GetPowersOfPrimitiveRoot(n, count, config) ==
    IF count = 0 THEN Ok(<<>>)
    ELSE LET r == GetPrimitiveRootOfUnity(n)
         IN IF ~IsOk(r) THEN r
            ELSE LET root == IF config \in {"Natural", "BitReverse"}
                             THEN r.val ELSE FInv(r.val)
                     up_to == IF config \in {"Natural", "NaturalInversed"}
                              THEN count ELSE NextPowerOfTwo(count)
                     results == Powers(root, 1, up_to)
                 IN IF config \in {"BitReverse", "BitReverseInversed"}
                    THEN Ok(InPlaceBitReversePermute(results))
                    ELSE Ok(results)

\* roots_of_unity::get_twiddles(order, config): half a domain of 2^order roots.
GetTwiddles(order, config) ==
    IF order > UsizeBits - 1 THEN Err("OrderError")
    ELSE GetPowersOfPrimitiveRoot(order, (2^order) \div 2, config)

RECURSIVE ButterfliesF(_, _, _, _, _)
ButterfliesF(input, w, i, last, half) ==
    IF i >= last THEN input
    ELSE LET wi == FMul(At(input, i + half), w)
             y0 == FAdd(At(input, i), wi)
             y1 == FAdd(At(input, i), FNeg(wi))
         IN ButterfliesF(Set(Set(input, i, y0), i + half, y1), w, i + 1, last, half)

RECURSIVE GroupsF(_, _, _, _, _)
GroupsF(input, twiddles, group, group_count, group_size) ==
    IF group >= group_count THEN input
    ELSE LET first == group * group_size
             half == group_size \div 2
         IN GroupsF(ButterfliesF(input, At(twiddles, group), first, first + half, half),
                    twiddles, group + 1, group_count, group_size)

RECURSIVE StagesF(_, _, _, _)
StagesF(input, twiddles, group_count, group_size) ==
    IF group_count >= Len(input) THEN input
    ELSE StagesF(GroupsF(input, twiddles, 0, group_count, group_size),
                 twiddles, group_count * 2, group_size \div 2)

\* fft::cpu::fft_functions::in_place_nr_2radix_fft on field elements.
InPlaceNr2RadixFft(input, twiddles) == StagesF(input, twiddles, 1, Len(input))

\* fft::cpu::ops::fft: natural-order input, natural-order output.
Fft(input, twiddles) ==
    IF ~IsPowerOfTwo(Len(input)) THEN Err("InputError")
    ELSE Ok(InPlaceBitReversePermute(InPlaceNr2RadixFft(input, twiddles)))

RECURSIVE StripTrailingZeros(_)
StripTrailingZeros(c) ==
    IF Len(c) = 0 \/ c[Len(c)] # 0 THEN c
    ELSE StripTrailingZeros(SubSeq(c, 1, Len(c) - 1))
\* Polynomial::new: trailing zero coefficients are removed.
PolynomialNew(coefficients) == StripTrailingZeros(coefficients)

\* FFTPoly::evaluate_fft(blowup_factor, domain_size); domain_size 0 is None.
EvaluateFft(poly, blowup_factor, domain_size) ==
    LET len == NextPowerOfTwo(Max(Len(poly), domain_size)) * blowup_factor
    IN IF Len(poly) = 0 THEN Ok(Zeros(len))
       ELSE LET tw == GetTwiddles(TrailingZeros(len), "BitReverse")
            IN IF ~IsOk(tw) THEN tw ELSE Fft(Resize(poly, len), tw.val)

\* FFTPoly::interpolate_fft: inverse transform, scaled by 1/len, as a Polynomial.
InterpolateFft(fft_evals) ==
    LET tw == GetTwiddles(TrailingZeros(Len(fft_evals)), "BitReverseInversed")
    IN IF ~IsOk(tw) THEN tw
       ELSE LET coeffs == Fft(fft_evals, tw.val)
            IN IF ~IsOk(coeffs) THEN coeffs
               ELSE LET scale_factor == FInv(FFromU64(Len(fft_evals)))
                        poly == PolynomialNew(coeffs.val)
                    IN Ok([i \in 1 .. Len(poly) |-> FMul(poly[i], scale_factor)])


RECURSIVE SumProducts(_, _, _)
SumProducts(cs, points, k) ==
    IF k = 0 THEN NeutralElement
    ELSE OperateWith(SumProducts(cs, points, k - 1), OperateWithSelf(points[k], cs[k]))

\* msm::naive::msm: an error on different lengths, else the weighted sum.
NaiveMsm(cs, points) ==
    IF Len(cs) # Len(points) THEN Err("LengthMismatch")
    ELSE Ok(SumProducts(cs, points, Len(cs)))

\* The MSM engine called by the Prover (msm::pippenger::parallel_msm_with): it
\* returns a point, never an error; scalar i weights point i over the matching
\* prefix of the two slices, and the window size changes the cost only.
ParallelMsmWith(cs, points, window_size) ==
    SumProducts(cs, points, Min(Len(cs), Len(points)))

\* ------------------------------------------------------------------ srs.rs
\* usize subtraction a - 1 as the build makes it: with overflow checks a panic,
\* without them a wrap to usize::MAX.
SubOne(a, overflow_checks) ==
    IF a >= 1 THEN Ok(a - 1)
    ELSE IF overflow_checks THEN Panic("attempt to subtract with overflow")
    ELSE Ok(UsizeMax)

\* Vec growth to `count` elements aborts once the bytes exceed isize::MAX.
FitsInMemory(count) == count * ElemSize <= IsizeMax

VandemondeChallengeShifted(x, n, overflow_checks) ==
    LET bound == SubOne(n, overflow_checks)
    IN IF ~FitsInMemory(n) THEN Panic("capacity overflow")
       ELSE IF ~IsOk(bound) THEN bound
       ELSE IF ~FitsInMemory(bound.val + 1) THEN Panic("capacity overflow")
       ELSE Ok(<<x>> \o [i \in 1 .. bound.val |-> FPow(x, (i - 1) + 1)])

\* vandemonde_challenge(x, n): push x, then x^(i + 2) for i in 0 .. n - 1.
VandemondeChallenge(x, n, overflow_checks) ==
    LET bound == SubOne(n, overflow_checks)
    IN IF ~FitsInMemory(n) THEN Panic("capacity overflow")
       ELSE IF ~IsOk(bound) THEN bound
       ELSE IF ~FitsInMemory(bound.val + 1) THEN Panic("capacity overflow")
       ELSE Ok(<<x>> \o [i \in 1 .. bound.val |-> FPow(x, (i - 1) + 2)])

\* generate_srs up to the parallel loop: the power table and vec![g1; n].
GenerateSrsSetup(len, t, overflow_checks) ==
    LET m == SubOne(len, overflow_checks)
    IN IF ~IsOk(m) THEN m
       ELSE VandemondeChallenge(t, m.val, overflow_checks)

\* ---------------------------------------------------------------- utils.rs
RECURSIVE FftGSwapped(_, _)
FftGSwapped(points, domain) ==
    IF Len(points) = 1 THEN Ok(points)
    ELSE IF Len(points) = 0 THEN Panic("stack overflow")
    ELSE LET odd_fft == FftGSwapped(Skip1StepBy2(points), StepBy2(domain))
             even_fft == FftGSwapped(StepBy2(points), StepBy2(domain))
         IN IF ~IsOk(odd_fft) THEN odd_fft
            ELSE IF ~IsOk(even_fft) THEN even_fft
            ELSE LET h == Len(odd_fft.val)
                     m == Min(h, Len(even_fft.val))
                     Etr(i) == OperateWithSelf(even_fft.val[i], domain[i])
                 IN IF m > Len(domain) THEN Panic("index out of bounds")
                    ELSE Ok([k \in 1 .. Len(points) |->
                             IF k <= m
                             THEN OperateWith(odd_fft.val[k], Etr(k))
                             ELSE IF k > h /\ k - h <= m
                             THEN OperateWith(odd_fft.val[k - h], Neg(Etr(k - h)))
                             ELSE Generator])

RECURSIVE FftG(_, _)
\* fft_g: recursive transform; `odd_points` are the points at even indices.
FftG(points, domain) ==
    IF Len(points) = 1 THEN Ok(points)
    ELSE IF Len(points) = 0 THEN Panic("stack overflow")
    ELSE LET odd_fft == FftG(StepBy2(points), StepBy2(domain))
             even_fft == FftG(Skip1StepBy2(points), StepBy2(domain))
         IN IF ~IsOk(odd_fft) THEN odd_fft
            ELSE IF ~IsOk(even_fft) THEN even_fft
            ELSE LET h == Len(odd_fft.val)
                     m == Min(h, Len(even_fft.val))
                     Etr(i) == OperateWithSelf(even_fft.val[i], domain[i])
                 IN IF m > Len(domain) THEN Panic("index out of bounds")
                    ELSE Ok([k \in 1 .. Len(points) |->
                             IF k <= m
                             THEN OperateWith(odd_fft.val[k], Etr(k))
                             ELSE IF k > h /\ k - h <= m
                             THEN OperateWith(odd_fft.val[k - h], Neg(Etr(k - h)))
                             ELSE Generator])

RECURSIVE ButterfliesG(_, _, _, _, _)
ButterfliesG(input, w, i, last, half) ==
    IF i >= last THEN Ok(input)
    ELSE IF i + half >= Len(input) THEN Panic("index out of bounds: input")
    ELSE LET wi == OperateWithSelf(At(input, i + half), w)
             y0 == OperateWith(At(input, i), wi)
             y1 == OperateWith(At(input, i), Neg(wi))
         IN ButterfliesG(Set(Set(input, i, y0), i + half, y1), w, i + 1, last, half)

RECURSIVE GroupsG(_, _, _, _, _)
GroupsG(input, twiddles, group, group_count, group_size) ==
    IF group >= group_count THEN Ok(input)
    ELSE IF group >= Len(twiddles) THEN Panic("index out of bounds: twiddles")
    ELSE LET first_in_group == group * group_size
             half == group_size \div 2
             r == ButterfliesG(input, At(twiddles, group), first_in_group,
                               first_in_group + half, half)
         IN IF ~IsOk(r) THEN r
            ELSE GroupsG(r.val, twiddles, group + 1, group_count, group_size)

RECURSIVE StagesG(_, _, _, _)
StagesG(input, twiddles, group_count, group_size) ==
    IF group_count >= Len(input) THEN Ok(input)
    ELSE LET r == GroupsG(input, twiddles, 0, group_count, group_size)
         IN IF ~IsOk(r) THEN r
            ELSE StagesG(r.val, twiddles, group_count * 2, group_size \div 2)

\* in_place_nr_2radix_fft_g: the butterfly network on points; an index past the
\* twiddle table or the input is a panic.
InPlaceNr2RadixFftG(input, twiddles) == StagesG(input, twiddles, 1, Len(input))

ToLagrangeBasisNoPermute(points) ==
    LET twiddles == GetTwiddles(TrailingZeros(Len(points)), "BitReverseInversed")
    IN IF ~IsOk(twiddles) THEN twiddles
       ELSE LET r == InPlaceNr2RadixFftG(points, twiddles.val)
            IN IF ~IsOk(r) THEN r
               ELSE LET inv_length == FPow(FFromU64(Len(points)), (Modulus - 1) - 1)
                    IN Ok([i \in 1 .. Len(r.val) |->
                              OperateWithSelf(r.val[i], inv_length)])

\* to_lagrange_basis: inverse transform of the points, scaled by 1/len.
ToLagrangeBasis(points) ==
    LET order == TrailingZeros(Len(points))
        twiddles == GetTwiddles(order, "BitReverseInversed")
    IN IF ~IsOk(twiddles) THEN twiddles
       ELSE LET r == InPlaceNr2RadixFftG(points, twiddles.val)
            IN IF ~IsOk(r) THEN r
               ELSE LET results == InPlaceBitReversePermute(r.val)
                        inv_length == FPow(FFromU64(Len(points)), (Modulus - 1) - 1)
                    IN Ok([i \in 1 .. Len(results) |->
                              OperateWithSelf(results[i], inv_length)])

\* --------------------------------------------------------------- prover.rs
ScaleFactorNum == 4
ScaleFactorDen == 5

WindowSizeOfLength(len) == (len * ScaleFactorNum) \div ScaleFactorDen

\* window_size = (len.checked_ilog2().unwrap_or(0) * 4) / 5.
WindowSize(len) == (CheckedILog2OrZero(len) * ScaleFactorNum) \div ScaleFactorDen

PointwiseSum(witness_eval, poly_eval) ==
    [i \in 1 .. Min(Len(witness_eval), Len(poly_eval)) |->
        FAdd(witness_eval[i], poly_eval[i])]

\* witness_eval.par_iter().zip(&self.poly_eval).map(|(w, e)| w * e).
PointwiseProduct(witness_eval, poly_eval) ==
    [i \in 1 .. Min(Len(witness_eval), Len(poly_eval)) |->
        FMul(witness_eval[i], poly_eval[i])]

\* Prover::new: the base polynomial's evaluations on a domain of blowup 2.
ProverNew(poly) ==
    LET eval == EvaluateFft(poly, 2, 0)
    IN IF ~IsOk(eval) THEN Err("Invalid FFT Op") ELSE Ok(eval.val)

\* What a commit call returns, with what it computed on the way.
CommitErr(m) ==
    [tag |-> "Err", val |-> NeutralElement, msg |-> m, evaluations |-> <<>>,
     scalars |-> <<>>, window_size |-> 0, msm_called |-> FALSE]
CommitOk(point, evaluations, scalars, window_size) ==
    [tag |-> "Ok", val |-> point, msg |-> "", evaluations |-> evaluations,
     scalars |-> scalars, window_size |-> window_size, msm_called |-> TRUE]

WitnessLengthMismatch == "Witness length does not match polynomial length"

CommitLagrangeUnchecked(poly_eval, witness_poly, lagrange_srs) ==
    LET witness_eval == EvaluateFft(witness_poly, 2, 0)
    IN IF ~IsOk(witness_eval) THEN CommitErr(witness_eval.msg)
       ELSE LET evaluations == PointwiseProduct(witness_eval.val, poly_eval)
                window_size == WindowSize(Len(evaluations))
            IN CommitOk(ParallelMsmWith(evaluations, lagrange_srs, window_size),
                        evaluations, evaluations, window_size)

\* Prover::commit_lagrange.
CommitLagrange(poly_eval, witness_poly, lagrange_srs) ==
    LET witness_eval == EvaluateFft(witness_poly, 2, 0)
    IN IF ~IsOk(witness_eval) THEN CommitErr(witness_eval.msg)
       ELSE IF Len(witness_eval.val) # Len(poly_eval)
       THEN CommitErr(WitnessLengthMismatch)
       ELSE LET evaluations == PointwiseProduct(witness_eval.val, poly_eval)
                window_size == WindowSize(Len(evaluations))
            IN CommitOk(ParallelMsmWith(evaluations, lagrange_srs, window_size),
                        evaluations, evaluations, window_size)

\* Prover::commit_polynomial.
CommitPolynomial(poly_eval, witness_poly, pwrs_tau) ==
    LET witness_eval == EvaluateFft(witness_poly, 2, 0)
    IN IF ~IsOk(witness_eval) THEN CommitErr(witness_eval.msg)
       ELSE IF Len(witness_eval.val) # Len(poly_eval)
       THEN CommitErr(WitnessLengthMismatch)
       ELSE LET evaluations == PointwiseProduct(witness_eval.val, poly_eval)
                polynomial == InterpolateFft(evaluations)
            IN IF ~IsOk(polynomial) THEN CommitErr(polynomial.msg)
               ELSE LET coeff == polynomial.val
                        window_size == WindowSize(Len(evaluations))
                    IN CommitOk(ParallelMsmWith(coeff, pwrs_tau, window_size),
                                evaluations, coeff, window_size)


\* ------------------------------------------------------------------ inputs
PoolAt(pool, i) == pool[((i - 1) % Len(pool)) + 1]
\* Coefficient vectors of a length: position i holds 0 or the pool's i-th value.
Vectors(len, pool) ==
    {[i \in 1 .. len |-> IF i \in S THEN PoolAt(pool, i) ELSE 0] : S \in SUBSET (1 .. len)}
WitnessPool == [i \in 1 .. Len(TestCoefficients) |->
                   TestCoefficients[Len(TestCoefficients) + 1 - i]]
\* random_poly(degree): degree + 1 sampled coefficients; the empty polynomial too.
BasePolys == UNION {Vectors(len, TestCoefficients) : len \in 0 .. MaxCoeffs}
WitnessPolys == UNION {Vectors(len, WitnessPool) : len \in 0 .. MaxCoeffs}

\* ------------------------------------------------------------------- state
VARIABLES
    pc,               \* where the session is
    n, tau,           \* generate_srs arguments
    powers_of_tau,    \* generate_srs: vandemonde_challenge(&tau, n - 1)
    tau_g1,           \* generate_srs: the vector being filled
    pending,          \* generate_srs: positions the parallel loop has not done
    srs,              \* result of generate_srs
    points_len,       \* length of the slice handed to to_lagrange_basis
    lagrange,         \* result of to_lagrange_basis
    forward,          \* result of fft_g on the Lagrange points
    test,             \* outcome of test_to_lagrange_basis
    base,             \* the Prover's base polynomial
    prover,           \* result of Prover::new (poly_eval)
    witness,          \* the witness polynomial
    pwrs_tau_len,     \* length of the slice handed to commit_polynomial
    commitment1,      \* result of commit_polynomial
    lagrange_srs_len, \* length of the slice handed to commit_lagrange
    commitment2       \* result of commit_lagrange

vars == <<pc, n, tau, powers_of_tau, tau_g1, pending, srs, points_len, lagrange,
          forward, test, base, prover, witness, pwrs_tau_len, commitment1,
          lagrange_srs_len, commitment2>>

NoResult == [tag |-> "None", val |-> <<>>, msg |-> ""]
NoCommit == [tag |-> "None", val |-> NeutralElement, msg |-> "", evaluations |-> <<>>,
             scalars |-> <<>>, window_size |-> 0, msm_called |-> FALSE]
NoTest == [outcome |-> "none", coefficients |-> <<>>,
           commitment1 |-> NeutralElement, commitment2 |-> NeutralElement]

Init ==
    /\ pc = "menu"
    /\ n = 0 /\ tau = 0
    /\ powers_of_tau = <<>> /\ tau_g1 = <<>> /\ pending = {}
    /\ srs = NoResult
    /\ points_len = 0 /\ lagrange = NoResult /\ forward = NoResult
    /\ test = NoTest
    /\ base = <<>> /\ prover = NoResult /\ witness = <<>>
    /\ pwrs_tau_len = 0 /\ commitment1 = NoCommit
    /\ lagrange_srs_len = 0 /\ commitment2 = NoCommit

\* generate_srs(len, t), up to the start of the parallel loop.
GenerateSrs(len, t, overflow_checks) ==
    /\ pc = "menu"
    /\ LET setup == GenerateSrsSetup(len, t, overflow_checks)
       IN IF IsOk(setup)
          THEN /\ powers_of_tau' = setup.val
               /\ tau_g1' = [i \in 1 .. len |-> Generator]
               /\ pending' = 2 .. Min(len, Len(setup.val) + 1)
               /\ srs' = srs
               /\ pc' = "generate_srs"
          ELSE /\ srs' = setup
               /\ pc' = "srs_ready"
               /\ UNCHANGED <<powers_of_tau, tau_g1, pending>>
    /\ n' = len /\ tau' = t
    /\ UNCHANGED <<points_len, lagrange, forward, test, base, prover, witness,
                   pwrs_tau_len, commitment1, lagrange_srs_len, commitment2>>

\* One iteration of par_iter_mut().skip(1).zip(&powers_of_tau), in any order.
SrsWorker(i) ==
    /\ pc = "generate_srs"
    /\ i \in pending
    /\ tau_g1' = [tau_g1 EXCEPT ![i] = OperateWithSelf(@, powers_of_tau[i - 1])]
    /\ pending' = pending \ {i}
    /\ UNCHANGED <<pc, n, tau, powers_of_tau, srs, points_len, lagrange, forward,
                   test, base, prover, witness, pwrs_tau_len, commitment1,
                   lagrange_srs_len, commitment2>>

\* The join of the parallel loop: generate_srs returns tau_g1.
SrsJoin ==
    /\ pc = "generate_srs"
    /\ pending = {}
    /\ srs' = Ok(tau_g1)
    /\ pc' = "srs_ready"
    /\ UNCHANGED <<n, tau, powers_of_tau, tau_g1, pending, points_len, lagrange,
                   forward, test, base, prover, witness, pwrs_tau_len, commitment1,
                   lagrange_srs_len, commitment2>>

\* to_lagrange_basis(&srs[..k]).
ConvertBasis(k) ==
    /\ pc = "srs_ready"
    /\ IsOk(srs)
    /\ k \in 0 .. Len(srs.val)
    /\ points_len' = k
    /\ lagrange' = ToLagrangeBasis(Prefix(srs.val, k))
    /\ pc' = "lagrange_ready"
    /\ UNCHANGED <<n, tau, powers_of_tau, tau_g1, pending, srs, forward, test, base,
                   prover, witness, pwrs_tau_len, commitment1, lagrange_srs_len,
                   commitment2>>

\* fft_g(&lagrange, &domain) with the natural-order roots of unity as domain.
ForwardTransform ==
    /\ pc = "lagrange_ready"
    /\ IsOk(lagrange)
    /\ LET domain == GetPowersOfPrimitiveRoot(TrailingZeros(Len(lagrange.val)),
                                              Len(lagrange.val), "Natural")
       IN /\ IsOk(domain)
          /\ forward' = FftG(lagrange.val, domain.val)
    /\ pc' = "forward_done"
    /\ UNCHANGED <<n, tau, powers_of_tau, tau_g1, pending, srs, points_len, lagrange,
                   test, base, prover, witness, pwrs_tau_len, commitment1,
                   lagrange_srs_len, commitment2>>

\* The body of test_to_lagrange_basis on the SRS and a coefficient vector c;
\* an unwrap of an error is a panic.
TestOutcome(points, c) ==
    LET polynomial == PolynomialNew(c)
        c1 == NaiveMsm(polynomial, points)
        evaluations == EvaluateFft(polynomial, 1, 0)
        lagrange_basis == ToLagrangeBasis(points)
    IN IF ~IsOk(c1) \/ ~IsOk(evaluations) \/ ~IsOk(lagrange_basis)
       THEN [NoTest EXCEPT !.outcome = "panicked", !.coefficients = c]
       ELSE LET c2 == NaiveMsm(evaluations.val, lagrange_basis.val)
            IN IF ~IsOk(c2)
               THEN [NoTest EXCEPT !.outcome = "panicked", !.coefficients = c]
               ELSE [outcome |-> IF c1.val = c2.val THEN "passed" ELSE "failed",
                     coefficients |-> c,
                     commitment1 |-> c1.val, commitment2 |-> c2.val]

TestToLagrangeBasis(c) ==
    /\ pc = "srs_ready"
    /\ IsOk(srs)
    /\ test' = TestOutcome(srs.val, c)
    /\ pc' = "test_done"
    /\ UNCHANGED <<n, tau, powers_of_tau, tau_g1, pending, srs, points_len, lagrange,
                   forward, base, prover, witness, pwrs_tau_len, commitment1,
                   lagrange_srs_len, commitment2>>

\* Prover::new(poly), with the SRS pair derived from the whole SRS at hand.
NewProver(coefficients) ==
    /\ pc = "lagrange_ready"
    /\ IsOk(lagrange)
    /\ points_len = Len(srs.val)
    /\ base' = PolynomialNew(coefficients)
    /\ prover' = ProverNew(PolynomialNew(coefficients))
    /\ pc' = "prover_ready"
    /\ UNCHANGED <<n, tau, powers_of_tau, tau_g1, pending, srs, points_len, lagrange,
                   forward, test, witness, pwrs_tau_len, commitment1,
                   lagrange_srs_len, commitment2>>

GenerateWitness(coefficients) ==
    /\ pc = "prover_ready"
    /\ IsOk(prover)
    /\ witness' = PolynomialNew(coefficients)
    /\ pc' = "witness_ready"
    /\ UNCHANGED <<n, tau, powers_of_tau, tau_g1, pending, srs, points_len, lagrange,
                   forward, test, base, prover, pwrs_tau_len, commitment1,
                   lagrange_srs_len, commitment2>>

\* prover.commit_polynomial(&witness, &srs[..len - drop]).
CommitPolynomialCall(drop) ==
    /\ pc = "witness_ready"
    /\ drop <= Len(srs.val)
    /\ pwrs_tau_len' = Len(srs.val) - drop
    /\ commitment1' = CommitPolynomial(prover.val, witness,
                                       Prefix(srs.val, Len(srs.val) - drop))
    /\ pc' = "committed1"
    /\ UNCHANGED <<n, tau, powers_of_tau, tau_g1, pending, srs, points_len, lagrange,
                   forward, test, base, prover, witness, lagrange_srs_len,
                   commitment2>>

\* prover.commit_lagrange(&witness, &lagrange_srs[..len - drop]).
CommitLagrangeCall(drop) ==
    /\ pc = "committed1"
    /\ drop <= Len(lagrange.val)
    /\ lagrange_srs_len' = Len(lagrange.val) - drop
    /\ commitment2' = CommitLagrange(prover.val, witness,
                                     Prefix(lagrange.val, Len(lagrange.val) - drop))
    /\ pc' = "committed2"
    /\ UNCHANGED <<n, tau, powers_of_tau, tau_g1, pending, srs, points_len, lagrange,
                   forward, test, base, prover, witness, pwrs_tau_len, commitment1>>

Next ==
    \/ \E len \in 0 .. MaxSrsLen, t \in Taus, oc \in BOOLEAN : GenerateSrs(len, t, oc)
    \/ \E i \in 2 .. MaxSrsLen : SrsWorker(i)
    \/ SrsJoin
    \/ \E k \in 0 .. MaxSrsLen : ConvertBasis(k)
    \/ ForwardTransform
    \/ \E c \in Vectors(Len(srs.val), TestCoefficients) : TestToLagrangeBasis(c)
    \/ \E c \in BasePolys : NewProver(c)
    \/ \E c \in WitnessPolys : GenerateWitness(c)
    \/ \E d \in 0 .. MaxDrop : CommitPolynomialCall(d)
    \/ \E d \in 0 .. MaxDrop : CommitLagrangeCall(d)

Spec == Init /\ [][Next]_vars


\* ------------------------------------------------- reference definitions
\* Largest length the window-size properties are checked for.
MaxWindowLen == 64

RECURSIVE NaivePow(_, _)
\* x^e by e successive multiplications.
NaivePow(x, e) == IF e = 0 THEN 1 ELSE FMul(x, NaivePow(x, e - 1))

RECURSIVE Horner(_, _, _)
\* The value at z of the polynomial with coefficients c[i], c[i + 1], ...
Horner(c, i, z) == IF i > Len(c) THEN 0 ELSE FAdd(c[i], FMul(z, Horner(c, i + 1, z)))

RECURSIVE Convolve(_, _, _, _)
Convolve(a, b, k, i) ==
    IF i > Len(a) THEN 0
    ELSE FAdd(IF k - i + 1 >= 1 /\ k - i + 1 <= Len(b) THEN FMul(a[i], b[k - i + 1]) ELSE 0,
              Convolve(a, b, k, i + 1))
\* Schoolbook product of two polynomials with at least one coefficient each.
PolyMul(a, b) == [k \in 1 .. (Len(a) + Len(b) - 1) |-> Convolve(a, b, k, 1)]

\* The primitive len-th root of unity the field hands out (len a power of two).
RootOfUnity(len) == GetPrimitiveRootOfUnity(TrailingZeros(len)).val
\* Evaluations of c at root^0, root^1, ..., root^(len - 1).
EvaluationsOver(c, len) ==
    [j \in 1 .. len |-> Horner(c, 1, NaivePow(RootOfUnity(len), j - 1))]

\* Evaluation-vector length of a polynomial: 2 * next_power_of_two(#coefficients).
EvalLen(poly) == 2 * NextPowerOfTwo(Len(poly))

Committed1 == pc \in {"committed1", "committed2"}
Committed2 == pc = "committed2"

\* ------------------------------------------------------------------ claims

\* Both commitments made, the SRS length being the evaluation length.
C1_Case ==
    /\ Committed2
    /\ EvalLen(witness) = EvalLen(base)
    /\ n = EvalLen(base)
    /\ pwrs_tau_len = n /\ lagrange_srs_len = n

C2_SumsAgree ==
    \A c \in Vectors(points_len, TestCoefficients) :
        SumProducts(c, srs.val, points_len)
            = SumProducts(EvaluationsOver(c, points_len), lagrange.val, points_len)

\* C2: for every power-of-two n, tau and coefficient vector c of length n, with
\* srs = generate_srs(n, tau), lag = to_lagrange_basis(srs) and e the evaluations of
\* c over the n-th roots of unity, sum c[i]*srs[i] = sum e[i]*lag[i].
C2_LagrangeCommitment ==
    /\ (pc \notin {"menu", "generate_srs"} /\ IsPowerOfTwo(n)) => IsOk(srs)
    /\ (pc = "lagrange_ready" /\ IsPowerOfTwo(n) /\ points_len = n)
          => (IsOk(lagrange) /\ C2_SumsAgree)
\* C2 for n >= 2, where generate_srs returns: the sums agree.
C2_FromTwo ==
    (pc = "lagrange_ready" /\ IsPowerOfTwo(points_len))
        => (IsOk(lagrange) /\ C2_SumsAgree)
\* C2, the repository's test: it passes whenever the last coefficient is not zero.
C2_TestPasses ==
    (pc = "test_done" /\ IsPowerOfTwo(n) /\ test.coefficients[n] # 0)
        => test.outcome = "passed"

\* C3: for n >= 2, generate_srs(n, tau) returns n points, element 0 the generator,
\* element i the generator scaled by tau^i, the power table being tau^1 .. tau^(n-1),
\* whatever the order in which the parallel loop runs.
C3_SrsIsPowersOfTau ==
    /\ (pc = "generate_srs" /\ n >= 2) =>
          /\ powers_of_tau = [i \in 1 .. (n - 1) |-> NaivePow(tau, i)]
          /\ Len(tau_g1) = n
          /\ \A i \in 1 .. n :
                tau_g1[i] = IF i \in pending THEN Generator
                            ELSE OperateWithSelf(Generator, NaivePow(tau, i - 1))
    /\ (pc = "srs_ready" /\ n >= 2) =>
          /\ IsOk(srs)
          /\ Len(srs.val) = n
          /\ srs.val[1] = Generator
          /\ \A i \in 1 .. (n - 1) :
                srs.val[i + 1] = OperateWithSelf(Generator, NaivePow(tau, i))
C3_Witness ==
    /\ pc = "srs_ready" /\ n = MaxSrsLen /\ tau = 42 /\ IsOk(srs)
    /\ srs.val[n] # Generator

\* C4: generate_srs(0, tau) returns the empty sequence and generate_srs(1, tau)
\* returns [generator], without any failure.
C4_SmallLengths ==
    (pc = "srs_ready" /\ n <= 1) => srs = Ok([i \in 1 .. n |-> Generator])

\* A witness of the wrong length, and the rejection it gets.
C5_Mismatch == EvalLen(witness) # Len(prover.val)
C5_Rejected(c) ==
    /\ c.tag = "Err"
    /\ c.msg = WitnessLengthMismatch
    /\ c.evaluations = <<>>
    /\ ~c.msm_called

\* C5: in both commit operations a witness whose evaluation-vector length differs
\* from the cached base length yields the witness-length-mismatch error, before any
\* pointwise product or MSM, whatever SRS is passed.
C5_LengthMismatchFails ==
    /\ (Committed1 /\ C5_Mismatch) => C5_Rejected(commitment1)
    /\ (Committed2 /\ C5_Mismatch) => C5_Rejected(commitment2)
C5_Witness ==
    /\ Committed2 /\ C5_Mismatch
    /\ Len(witness) > Len(base) /\ lagrange_srs_len = n

\* C6: in both commit operations, scalars and SRS slice of different lengths make
\* the call fail with an error; no commitment over part of them is returned.
C6_MsmLengthMismatchFails ==
    /\ (Committed1 /\ commitment1.msm_called
            /\ Len(commitment1.scalars) # pwrs_tau_len) => commitment1.tag = "Err"
    /\ (Committed2 /\ commitment2.msm_called
            /\ Len(commitment2.scalars) # lagrange_srs_len) => commitment2.tag = "Err"

\* C7: to_lagrange_basis returns an error for every length that is not a power of
\* two, and reads no twiddle or point out of range.
C7_NonPowerOfTwoIsError ==
    (pc = "lagrange_ready" /\ ~IsPowerOfTwo(points_len)) => lagrange.tag = "Err"
\* C7, what the code does there: the result is never Ok.
C7_NeverOk ==
    (pc = "lagrange_ready" /\ ~IsPowerOfTwo(points_len)) => lagrange.tag # "Ok"

\* C8: for a monomial SRS of power-of-two length >= 2, to_lagrange_basis followed
\* by fft_g over the natural-order roots of unity returns the SRS.
C8_RoundTrip ==
    (pc = "forward_done" /\ points_len >= 2)
        => forward = Ok(Prefix(srs.val, points_len))
C8_Witness ==
    /\ pc = "forward_done" /\ points_len = 8 /\ tau = 42
    /\ IsOk(forward) /\ forward.val[8] # forward.val[2]

\* The length check passed with nothing empty.
C9_Case ==
    /\ Committed1
    /\ Len(base) >= 1 /\ Len(witness) >= 1
    /\ EvalLen(base) = EvalLen(witness)

\* C9: when a commit call passes the length check with non-empty base and witness,
\* L >= (n - 1) + (m - 1) + 1, the pointwise product is the evaluation vector of
\* h = witness * base, and commit_polynomial interpolates exactly h's coefficients.
C9_ProductIsExact ==
    C9_Case =>
        LET L == EvalLen(base)
            h == PolyMul(witness, base)
        IN /\ L >= (Len(base) - 1) + (Len(witness) - 1) + 1
           /\ commitment1.tag = "Ok"
           /\ commitment1.evaluations = EvaluationsOver(h, L)
           /\ commitment1.scalars = h
C9_Witness ==
    /\ C9_Case
    /\ Len(base) = MaxCoeffs /\ Len(witness) = MaxCoeffs
    /\ Len(commitment1.scalars) = 2 * MaxCoeffs - 1

\* w = floor(floor(log2 len) * 4 / 5), in integers.
C10_IsFloor(len, w) ==
    \E k \in 0 .. UsizeBits :
        /\ 2^k <= len /\ len < 2^(k + 1)
        /\ 5 * w <= 4 * k /\ 4 * k < 5 * (w + 1)
C10_Passed(c) ==
    c.msm_called => /\ C10_IsFloor(Len(c.evaluations), c.window_size)
                    /\ c.window_size = WindowSize(Len(c.evaluations))
\* The function of the length alone, looked at where the session starts.
C10_Heuristic ==
    /\ WindowSize(0) = 0 /\ WindowSize(1) = 0
    /\ \A a \in 1 .. MaxWindowLen :
          /\ WindowSize(a - 1) <= WindowSize(a)
          /\ C10_IsFloor(a, WindowSize(a))

\* C10: the window size passed to the MSM is floor(log2(len) * 4/5) of the
\* evaluation-vector length; the value is 0 for len 0 and 1 and never decreases
\* as len grows.
C10_WindowSize ==
    /\ Committed1 => C10_Passed(commitment1)
    /\ Committed2 => C10_Passed(commitment2)
    /\ pc = "menu" => C10_Heuristic
C10_Witness ==
    /\ Committed2 /\ commitment1.msm_called /\ commitment2.msm_called
    /\ commitment2.window_size = 2

=============================================================================
